---- MODULE Spec2Model ----
(***************************************************************************)
(* defeed_index: the activity store client (repository.py) and the topic   *)
(* registry facade (registry.py).                                          *)
(*                                                                         *)
(* The relational table and the BERTopic engine are collaborators outside  *)
(* the source: the table is the variable `table` (a set of rows, changed   *)
(* by writers other than this program), the engine is the variable         *)
(* `engine` (what its last successful fit_transform left behind).          *)
(***************************************************************************)
EXTENDS Integers, Sequences, FiniteSets, TLC

VARIABLES
    table,       \* rows of the activities table, as the last query saw them
    activities,  \* Registry.activities
    documents,   \* Registry.documents
    topics,      \* Registry.topics
    engine,      \* Registry.topic_model: [fitted, docs, topics, info]
    ret,         \* outcome of the most recent call
    raised,      \* history: some seed call has raised
    seed_pc      \* where a seed call in flight stands: "idle", "docs" or "fit"

vars == <<table, activities, documents, topics, engine, ret, raised, seed_pc>>

(* ---------------------------------------------------------------- bounds *)
\* rows in the table under Spec
MaxRows == 2
\* rows in the table under SpecList
MaxListRows == 3
\* rows in the table under SpecBig (beyond the summary cap)
MaxBigRows == 12

(* ----------------------------------------------------- program constants *)
\* registry.py:43  self.repository.list(limit=100)
SeedLimit == 100
\* registry.py:99  activities[:10]
SummaryCap == 10
\* registry.py:78  num_words: int = 10
NumWords == 10
\* registry.py:115  topic_id != -1
OUTLIER == -1

(* ------------------------------------------------------------ value sets *)
\* SQL NULL, which psycopg2 hands over as Python None
NULL == "NULL"
\* a non-null embedding value that is empty, and one that is not
EMPTY_VEC == "[]"
VEC == "[0.1]"
SourceSeq == <<"src-a", "src-b">>
TimeSeq == <<1, 2>>
EmbeddingSeq == <<NULL, EMPTY_VEC, VEC>>
Sources == {SourceSeq[i] : i \in 1..Len(SourceSeq)}
Times == {TimeSeq[i] : i \in 1..Len(TimeSeq)}
TopicIds == {OUTLIER, 0, 1}

\* Optional[...] of a parameter or of a record: None is <<>>, a value x is <<x>>
None == <<>>
Some(x) == <<x>>
IsSome(o) == o # None

Min(a, b) == IF a <= b THEN a ELSE b
Range(s) == {s[i] : i \in 1..Len(s)}
Take(s, n) == SubSeq(s, 1, Min(n, Len(s)))

\* Python truthiness of a column value: None, '' and [] are falsy
Truthy(v) == v \notin {NULL, "", EMPTY_VEC}

(* ------------------------------------------------------------------ rows *)
\* the columns the SELECT of ActivityRepository.list names
Columns ==
    {"id", "uid", "source_uid", "source_type", "title", "body", "url",
     "image_url", "created_at", "short_summary", "full_summary", "raw_json",
     "embedding"}

MkRow(id, src, t, ss, fs, emb) ==
    [id |-> id, uid |-> "uid" \o ToString(id), source_uid |-> src,
     source_type |-> "rss", title |-> "title" \o ToString(id), body |-> "body",
     url |-> "url", image_url |-> "img", created_at |-> t,
     short_summary |-> ss, full_summary |-> fs, raw_json |-> "{}",
     embedding |-> emb]

ShortText(id) == "short" \o ToString(id)
FullText(id) == "full" \o ToString(id)

\* row.get(key): None when the key is missing
Get(row, key) == IF key \in DOMAIN row THEN row[key] ELSE NULL

\* a result row without one of its columns
DropKey(row, key) == [k \in (DOMAIN row) \ {key} |-> row[k]]

(* ------------------------------------------------- repository.py: rows *)
\* the keys _deserialize_activity subscripts: a missing one is a KeyError
RequiredKeys ==
    {"id", "source_uid", "source_type", "title", "body", "url", "image_url",
     "created_at", "raw_json"}

CanDeserialize(row) == RequiredKeys \subseteq DOMAIN row

_deserialize_activity(row) ==
    [uid |-> row["id"], source_uid |-> row["source_uid"],
     source_type |-> row["source_type"], title |-> row["title"],
     body |-> row["body"], url |-> row["url"], image_url |-> row["image_url"],
     created_at |-> row["created_at"], raw_json |-> row["raw_json"]]

\* a summary that is built whenever the keys are there, empty strings included
SummaryOfAnyValues(row) ==
    IF Get(row, "short_summary") # NULL /\ Get(row, "full_summary") # NULL
    THEN Some([short_summary |-> row["short_summary"],
               full_summary |-> row["full_summary"]])
    ELSE None

_deserialize_activity_summary(row) ==
    IF Truthy(Get(row, "short_summary")) /\ Truthy(Get(row, "full_summary"))
    THEN Some([short_summary |-> row["short_summary"],
               full_summary |-> row["full_summary"]])
    ELSE None

_deserialize_decorated_activity(row) ==
    [activity |-> _deserialize_activity(row),
     summary |-> _deserialize_activity_summary(row),
     embedding |-> IF Truthy(Get(row, "embedding")) THEN row["embedding"] ELSE NULL,
     similarity |-> IF "similarity" \in DOMAIN row THEN row["similarity"] ELSE 0]

(* ------------------------------------------------ repository.py: query *)
\* WHERE embedding IS NOT NULL [AND source_uid = ANY(..)] [AND created_at >= ..]
Where(tbl, source_ids, from_date) ==
    {r \in tbl :
        /\ r.embedding # NULL
        /\ IsSome(source_ids) => r.source_uid \in source_ids[1]
        /\ IsSome(from_date) => r.created_at >= from_date[1]}

\* ascending order, the opposite of what the query asks for
RECURSIVE OrderByCreatedAtAsc(_)
OrderByCreatedAtAsc(S) ==
    IF S = {} THEN {<<>>}
    ELSE UNION {{<<r>> \o s : s \in OrderByCreatedAtAsc(S \ {r})} :
                r \in {x \in S : \A y \in S : x.created_at <= y.created_at}}

\* ORDER BY created_at DESC: every ordering the server may return (rows with
\* equal created_at come in any order)
RECURSIVE OrderByCreatedAtDesc(_)
OrderByCreatedAtDesc(S) ==
    IF S = {} THEN {<<>>}
    ELSE UNION {{<<r>> \o s : s \in OrderByCreatedAtDesc(S \ {r})} :
                r \in {x \in S : \A y \in S : x.created_at >= y.created_at}}

\* LIMIT %s, present only when limit is not None
Limit(s, limit) == IF IsSome(limit) THEN Take(s, limit[1]) ELSE s

\* the statement list() builds: the result sequences the server may return
Query(tbl, source_ids, from_date, limit) ==
    {Limit(s, limit) : s \in OrderByCreatedAtDesc(Where(tbl, source_ids, from_date))}

\* cur.fetchall(): the query's rows, or the same with one row lacking a
\* column _deserialize_activity needs
Fetchall(tbl, source_ids, from_date, limit) ==
    LET Q == Query(tbl, source_ids, from_date, limit) IN
    Q \cup UNION {{[s EXCEPT ![k] = DropKey(s[k], "title")] : k \in 1..Len(s)} : s \in Q}

(* ------------------------------------------------- repository.py: list *)
ListRaised(error, executes, rows) ==
    [status |-> "raised", error |-> error, value |-> <<>>, connects |-> 1,
     executes |-> executes, logged |-> TRUE, fetched |-> rows]

\* a loop that logs and skips a row it cannot deserialize
DeserializeLoopSkipping(rows) ==
    [status |-> "ok", error |-> "",
     value |-> LET good == SelectSeq(rows, CanDeserialize) IN
               [i \in 1..Len(good) |-> _deserialize_decorated_activity(good[i])],
     connects |-> 1, executes |-> 1,
     logged |-> \E i \in 1..Len(rows) : ~CanDeserialize(rows[i]),
     fetched |-> rows]

\* for row in rows: activities.append(_deserialize_decorated_activity(dict(row)))
\* inside the try: the first KeyError leaves the loop and the function
DeserializeLoop(rows) ==
    IF \A i \in 1..Len(rows) : CanDeserialize(rows[i])
    THEN [status |-> "ok", error |-> "",
          value |-> [i \in 1..Len(rows) |-> _deserialize_decorated_activity(rows[i])],
          connects |-> 1, executes |-> 1, logged |-> FALSE, fetched |-> rows]
    ELSE ListRaised("KeyError", 1, rows)

\* ActivityRepository.list: the outcomes of one call. psycopg2.connect or
\* cur.execute may raise; whatever raises inside the try is logged and re-raised.
list(tbl, source_ids, from_date, limit) ==
    {ListRaised("connect", 0, <<>>), ListRaised("execute", 1, <<>>)}
        \cup {DeserializeLoop(rows) : rows \in Fetchall(tbl, source_ids, from_date, limit)}

(* ------------------------------------------------- registry.py: seed *)
\* the document of one activity (registry.py:52-55); the else branch reads
\* activity.summary.short_summary, an AttributeError when summary is None
DocRaises(a) ==
    ~(IsSome(a.summary) /\ Truthy(a.summary[1].full_summary)) /\ ~IsSome(a.summary)

DocText(a) ==
    IF IsSome(a.summary) /\ Truthy(a.summary[1].full_summary)
    THEN a.summary[1].full_summary
    ELSE a.activity.title \o " " \o a.summary[1].short_summary

\* the loop of registry.py:50-57: documents is reset, then appended to in
\* place, so a raise leaves the documents built so far
PrepareDocuments(acts) ==
    LET bad == {i \in 1..Len(acts) : DocRaises(acts[i])}
        n == IF bad = {} THEN Len(acts)
             ELSE (CHOOSE i \in bad : \A j \in bad : i <= j) - 1
    IN [docs |-> [i \in 1..n |-> DocText(acts[i])], raised |-> bad # {}]

RECURSIVE Perms(_)
Perms(S) ==
    IF S = {} THEN {<<>>}
    ELSE UNION {{<<x>> \o p : p \in Perms(S \ {x})} : x \in S}

\* BERTopic.fit_transform on a batch: one topic id per document, and a
\* topic-info table listing each assigned id once. Every assignment and
\* every table order.
AllFits(docs) ==
    UNION {{[topics |-> f, info |-> p] : p \in Perms(Range(f))} :
           f \in [1..Len(docs) -> TopicIds]}

\* the same, for batches too long to enumerate: two topics, the first k
\* documents in one and the others in the other (k around the summary cap),
\* or the two alternating
SplitFits(docs) ==
    LET n == Len(docs)
        split == {[i \in 1..n |-> IF i <= k THEN ab[1] ELSE ab[2]] :
                    k \in {0} \cup ((SummaryCap - 1)..n),
                    ab \in {<<0, OUTLIER>>, <<1, 0>>, <<OUTLIER, 1>>}}
        alternating == {[i \in 1..n |-> IF i % 2 = 1 THEN ab[1] ELSE ab[2]] :
                    ab \in {<<0, OUTLIER>>, <<1, 0>>, <<OUTLIER, 1>>}}
    IN UNION {{[topics |-> f, info |-> p] : p \in Perms(Range(f))} :
              f \in split \cup alternating}

\* what a seed call did: whether list returned (and how many activities),
\* whether fit_transform was called, and how the call ended
SeedRet(status, error, listed, retrieved, fit) ==
    [op |-> "seed", status |-> status, error |-> error, listed |-> listed,
     retrieved |-> retrieved, fit |-> fit]

\* the engine's outcomes on a batch: every one, or the two-topic ones
Fits(docs, every) == IF every THEN AllFits(docs) ELSE SplitFits(docs)

\* Registry.seed. Other writers may have changed the table since the last
\* call: it holds one of Tables when the query runs. The engine's outcomes are
\* drawn from Fits(_, every).
Seed(Tables, every) ==
    \E tbl \in Tables :
      \E out \in list(tbl, None, None, Some(SeedLimit)) :
        IF out.status = "raised"
        THEN /\ ret' = SeedRet("raised", out.error, FALSE, 0, FALSE)
             /\ raised' = TRUE
             /\ UNCHANGED <<table, activities, documents, topics, engine, seed_pc>>
        ELSE
          /\ table' = tbl
          /\ activities' = out.value
          /\ IF out.value = <<>>
             THEN /\ ret' = SeedRet("ok", "", TRUE, 0, FALSE)
                  /\ UNCHANGED <<documents, topics, engine, raised, seed_pc>>
             ELSE LET prep == PrepareDocuments(out.value) IN
                  /\ documents' = prep.docs
                  /\ IF prep.raised
                     THEN /\ ret' = SeedRet("raised", "AttributeError", TRUE, Len(out.value), FALSE)
                          /\ raised' = TRUE
                          /\ UNCHANGED <<topics, engine, seed_pc>>
                     ELSE \/ /\ ret' = SeedRet("raised", "engine", TRUE, Len(out.value), TRUE)
                             /\ raised' = TRUE
                             /\ UNCHANGED <<topics, engine, seed_pc>>
                          \/ \E fit \in Fits(prep.docs, every) :
                             /\ topics' = fit.topics
                             /\ engine' = [fitted |-> TRUE, docs |-> prep.docs,
                                           topics |-> fit.topics, info |-> fit.info]
                             /\ ret' = SeedRet("ok", "", TRUE, Len(out.value), TRUE)
                             /\ UNCHANGED <<raised, seed_pc>>

(* ------------------------------------------------ registry.py: readers *)
\* the positions get_topic_activities keeps (registry.py:72-73)
Positions(topic_id) ==
    SelectSeq([i \in 1..Len(topics) |-> i],
              LAMBDA i : topics[i] = topic_id /\ i <= Len(activities))

get_topic_activities(topic_id) ==
    LET pos == Positions(topic_id) IN [k \in 1..Len(pos) |-> activities[pos[k]]]

\* BERTopic.get_topic(topic_id): the (word, score) pairs of a topic the fitted
\* model knows
EngineTopic(topic_id) == <<<<"kw" \o ToString(topic_id), 1>>>>

\* get_topic on an unfitted model raises, and on an unknown topic returns False,
\* which cannot be sliced
KeywordsRaise(topic_id) == ~engine.fitted \/ topic_id \notin Range(engine.info)

get_topic_keywords(topic_id) == Take(EngineTopic(topic_id), NumWords)

\* datetime.isoformat()
isoformat(t) == "T" \o ToString(t)

Brief(a) ==
    [uid |-> a.activity.uid, title |-> a.activity.title,
     created_at |-> isoformat(a.activity.created_at),
     source_type |-> a.activity.source_type]

\* a summary whose count is taken after the cut to the first 10
SummaryCountingTheCut(topic_id) ==
    LET acts == Take(get_topic_activities(topic_id), SummaryCap)
        kws == get_topic_keywords(topic_id)
    IN [topic_id |-> topic_id,
        keywords |-> [i \in 1..Len(kws) |-> [word |-> kws[i][1], score |-> kws[i][2]]],
        activity_count |-> Len(acts),
        activities |-> [i \in 1..Len(acts) |-> Brief(acts[i])]]

get_topic_summary(topic_id) ==
    LET acts == get_topic_activities(topic_id)
        kws == get_topic_keywords(topic_id)
        shown == Take(acts, SummaryCap)
    IN [topic_id |-> topic_id,
        keywords |-> [i \in 1..Len(kws) |-> [word |-> kws[i][1], score |-> kws[i][2]]],
        activity_count |-> Len(acts),
        activities |-> [i \in 1..Len(shown) |-> Brief(shown[i])]]

\* one summary per row of the topic-info table, the outlier row included
AllRowsSummary ==
    [i \in 1..Len(engine.info) |-> get_topic_summary(engine.info[i])]

\* topic_model is never None and get_topic_info() never returns None: the
\* loop of registry.py:113-117 over the rows of the table
get_all_topics_summary ==
    LET ids == SelectSeq(engine.info, LAMBDA t : t # OUTLIER)
    IN [i \in 1..Len(ids) |-> get_topic_summary(ids[i])]

GetTopicActivities ==
    \E t \in TopicIds :
        /\ ret' = [op |-> "get_topic_activities", arg |-> t, status |-> "ok",
                   value |-> get_topic_activities(t), positions |-> Positions(t)]
        /\ UNCHANGED <<table, activities, documents, topics, engine, raised, seed_pc>>

GetTopicSummary ==
    \E t \in TopicIds :
        /\ ret' = IF KeywordsRaise(t)
                  THEN [op |-> "get_topic_summary", arg |-> t, status |-> "raised"]
                  ELSE [op |-> "get_topic_summary", arg |-> t, status |-> "ok",
                        value |-> get_topic_summary(t)]
        /\ UNCHANGED <<table, activities, documents, topics, engine, raised, seed_pc>>

\* get_topic_info() on an unfitted model raises
GetAllTopicsSummary ==
    /\ ret' = IF ~engine.fitted
              THEN [op |-> "get_all_topics_summary", status |-> "raised"]
              ELSE [op |-> "get_all_topics_summary", status |-> "ok",
                    value |-> get_all_topics_summary]
    /\ UNCHANGED <<table, activities, documents, topics, engine, raised, seed_pc>>

(* ------------------------------------------------------------ the table *)
\* a row with an embedding, with or without its summaries
RegRow(id, summarized) ==
    MkRow(id, "src-a", id,
          IF summarized THEN ShortText(id) ELSE NULL,
          IF summarized THEN FullText(id) ELSE NULL, VEC)

\* tables of rows 1..n, each with or without summaries, created in id order
SmallTables ==
    UNION {{{RegRow(i, k[i]) : i \in 1..n} : k \in [1..n -> BOOLEAN]} : n \in 0..MaxRows}

\* the empty table and the largest ones, every row summarized
BigTables ==
    {{RegRow(i, TRUE) : i \in 1..n} : n \in {0} \cup ((MaxBigRows - 1)..MaxBigRows)}

\* the kinds of row that differ in source, creation time and embedding,
\* numbered from 1
NumKinds == Len(SourceSeq) * Len(TimeSeq) * Len(EmbeddingSeq)

KindSeq ==
    [j \in 1..NumKinds |->
        [src |-> SourceSeq[((j - 1) % Len(SourceSeq)) + 1],
         t |-> TimeSeq[(((j - 1) \div Len(SourceSeq)) % Len(TimeSeq)) + 1],
         emb |-> EmbeddingSeq[((j - 1) \div (Len(SourceSeq) * Len(TimeSeq))) + 1]]]

\* tables of rows 1..n of any kinds. The id of a row is a label no query
\* reads, so the kinds are taken in non-decreasing order of KindSeq.
ListTables ==
    UNION {{{MkRow(i, KindSeq[k[i]].src, KindSeq[k[i]].t, ShortText(i), FullText(i),
                   KindSeq[k[i]].emb) : i \in 1..n} :
             k \in {f \in [1..n -> 1..NumKinds] :
                      \A i \in 1..n, j \in 1..n : i <= j => f[i] <= f[j]}} :
           n \in 0..MaxListRows}

\* single rows that differ in every column the deserializers test, with the
\* summary columns present or missing
RowTables ==
    LET rows == {MkRow(1, src, t, ss, fs, emb) :
                    src \in Sources, t \in Times, ss \in {NULL, "", ShortText(1)},
                    fs \in {NULL, "", FullText(1)}, emb \in Range(EmbeddingSeq)}
    IN {{r} : r \in rows}
           \cup {{DropKey(r, "short_summary")} : r \in rows}
           \cup {{DropKey(r, "full_summary")} : r \in rows}

(* ------------------------------------------------------- specifications *)
\* Registry.__init__ (registry.py:17-36), over a table
InitOver(Tables) ==
    /\ table \in Tables
    /\ activities = <<>>
    /\ documents = <<>>
    /\ topics = <<>>
    /\ engine = [fitted |-> FALSE, docs |-> <<>>, topics |-> <<>>, info |-> <<>>]
    /\ ret = [op |-> "init"]
    /\ raised = FALSE
    /\ seed_pc = "idle"

Init == InitOver({{}})

Next ==
    \/ Seed(SmallTables, TRUE)
    \/ GetTopicActivities
    \/ GetTopicSummary
    \/ GetAllTopicsSummary

Spec == Init /\ [][Next]_vars

InitBig == InitOver({{}})

NextBig ==
    \/ Seed(BigTables, FALSE)
    \/ GetTopicActivities
    \/ GetTopicSummary
    \/ GetAllTopicsSummary

SpecBig == InitBig /\ [][NextBig]_vars

SourceIdArgs == {None} \cup {Some(S) : S \in SUBSET Sources}
DateArgs == {None} \cup {Some(t) : t \in Times}
LimitArgs == {None} \cup {Some(n) : n \in 0..MaxListRows}

\* one call of ActivityRepository.list on the table
List ==
    /\ ret.op = "init"
    /\ \E source_ids \in SourceIdArgs, from_date \in DateArgs, limit \in LimitArgs :
         \E out \in list(table, source_ids, from_date, limit) :
            ret' = [op |-> "list", source_ids |-> source_ids, from_date |-> from_date,
                    limit |-> limit, status |-> out.status, error |-> out.error,
                    value |-> out.value, connects |-> out.connects,
                    executes |-> out.executes, logged |-> out.logged,
                    fetched |-> out.fetched]
    /\ UNCHANGED <<table, activities, documents, topics, engine, raised, seed_pc>>

InitList == InitOver(ListTables)

NextList == List

SpecList == InitList /\ [][NextList]_vars

\* one call of _deserialize_decorated_activity on a row
Deserialize ==
    /\ ret.op = "init"
    /\ \E row \in table :
         ret' = [op |-> "deserialize", row |-> row,
                 value |-> _deserialize_decorated_activity(row)]
    /\ UNCHANGED <<table, activities, documents, topics, engine, raised, seed_pc>>

InitRow == InitOver(RowTables)

NextRow == Deserialize

SpecRow == InitRow /\ [][NextRow]_vars

(* ---------------------------------- registry.py: seed, statement by statement *)
\* a seed that keeps the retrieval to itself instead of storing it at once
SeedListKeepingActivities(Tables) ==
    /\ seed_pc = "idle"
    /\ \E tbl \in Tables :
         \E out \in list(tbl, None, None, Some(SeedLimit)) :
           /\ out.status = "ok"
           /\ out.value # <<>>
           /\ table' = tbl
           /\ seed_pc' = "docs"
           /\ ret' = [op |-> "seed", status |-> "running"]
           /\ UNCHANGED <<activities, documents, topics, engine, raised>>

\* registry.py:43-47: the call of list, the assignment to self.activities and
\* the early return. Nothing is locked: the call stays in flight at "docs".
SeedList(Tables) ==
    /\ seed_pc = "idle"
    /\ \E tbl \in Tables :
         \E out \in list(tbl, None, None, Some(SeedLimit)) :
           IF out.status = "raised"
           THEN /\ ret' = SeedRet("raised", out.error, FALSE, 0, FALSE)
                /\ raised' = TRUE
                /\ UNCHANGED <<table, activities, documents, topics, engine, seed_pc>>
           ELSE /\ table' = tbl
                /\ activities' = out.value
                /\ UNCHANGED <<documents, topics, engine, raised>>
                /\ IF out.value = <<>>
                   THEN /\ ret' = SeedRet("ok", "", TRUE, 0, FALSE)
                        /\ UNCHANGED seed_pc
                   ELSE /\ ret' = [op |-> "seed", status |-> "running"]
                        /\ seed_pc' = "docs"

\* registry.py:50-59: self.documents is rebuilt from self.activities
SeedDocuments ==
    /\ seed_pc = "docs"
    /\ LET prep == PrepareDocuments(activities) IN
       /\ documents' = prep.docs
       /\ IF prep.raised
          THEN /\ ret' = SeedRet("raised", "AttributeError", TRUE, Len(activities), FALSE)
               /\ raised' = TRUE
               /\ seed_pc' = "idle"
          ELSE /\ seed_pc' = "fit"
               /\ UNCHANGED <<ret, raised>>
    /\ UNCHANGED <<table, activities, topics, engine>>

\* registry.py:61-65: fit_transform on self.documents, then the assignment to
\* self.topics
SeedFit(every) ==
    /\ seed_pc = "fit"
    /\ seed_pc' = "idle"
    /\ \/ /\ ret' = SeedRet("raised", "engine", TRUE, Len(activities), TRUE)
          /\ raised' = TRUE
          /\ UNCHANGED <<topics, engine>>
       \/ \E fit \in Fits(documents, every) :
          /\ topics' = fit.topics
          /\ engine' = [fitted |-> TRUE, docs |-> documents,
                        topics |-> fit.topics, info |-> fit.info]
          /\ ret' = SeedRet("ok", "", TRUE, Len(activities), TRUE)
          /\ UNCHANGED raised
    /\ UNCHANGED <<table, activities, documents>>

InitSteps == InitOver({{}})

\* one seed call at a time, its statements interleaved with the readers of
\* another thread
NextSteps ==
    \/ SeedList(SmallTables)
    \/ SeedDocuments
    \/ SeedFit(TRUE)
    \/ GetTopicActivities

SpecSteps == InitSteps /\ [][NextSteps]_vars

(* ================================================================ claims *)

\* the positions at which a sequence of topic ids holds t, in order
PositionsIn(assigned, t) ==
    SelectSeq([i \in 1..Len(assigned) |-> i], LAMBDA i : assigned[i] = t)

(* C1: a seed whose retrieval is empty returns without raising and leaves
   activities, documents and topics exactly as they were before the call.
   Stated for the runs in which no seed call has raised, so that the state
   before the call is the initial one or one a successful seed produced. *)
C1_EmptySeedIsNoOp ==
    [][(~raised /\ ret'.op = "seed" /\ ret'.listed /\ ret'.retrieved = 0)
          => /\ ret'.status = "ok"
             /\ activities' = activities
             /\ documents' = documents
             /\ topics' = topics]_vars

(* C2: for every topic id other than the outlier id that the topic-info table
   lists, get_topic_activities returns exactly the retained activities at the
   positions the most recent fit assigned that id, in order. Stated for the
   runs in which no seed call has raised, which the claim includes. *)
C2_TopicActivitiesMatchFit ==
    (/\ ret.op = "get_topic_activities"
     /\ ~raised
     /\ engine.fitted
     /\ ret.arg \in Range(engine.info)
     /\ ret.arg # OUTLIER)
        => LET want == PositionsIn(engine.topics, ret.arg) IN
           /\ ret.positions = want
           /\ Len(ret.value) = Len(want)
           /\ \A k \in 1..Len(want) : ret.value[k] = activities[want[k]]

(* C3: in every reachable state activities, documents and topics have the same
   length, documents[n] is the document of activities[n], and topics[n] is the
   engine's assignment for documents[n]. Stated for the runs in which no seed
   call has raised, which the claim includes. *)
C3_PositionalAlignment ==
    ~raised
        => /\ Len(activities) = Len(documents)
           /\ Len(documents) = Len(topics)
           /\ \A n \in 1..Len(activities) :
                ~DocRaises(activities[n]) /\ documents[n] = DocText(activities[n])
           /\ documents = engine.docs
           /\ topics = engine.topics

(* C4: a seed whose retrieval is not empty derives one document per retrieved
   activity, in retrieval order (the full summary when the activity has a
   summary), and reaches the engine's fit call with as many documents as
   activities, also when an activity has no summary. *)
C4_OneDocumentPerActivity ==
    (ret.op = "seed" /\ ret.listed /\ ret.retrieved > 0)
        => /\ ret.fit
           /\ Len(documents) = Len(activities)
           /\ \A n \in 1..Len(activities) :
                IsSome(activities[n].summary)
                    => documents[n] = activities[n].summary[1].full_summary

\* the rows of the table that pass the filters of the call in ret
Eligible ==
    {r \in table :
        /\ r.embedding # NULL
        /\ ret.source_ids # None => r.source_uid \in ret.source_ids[1]
        /\ ret.from_date # None => r.created_at >= ret.from_date[1]}

ListReturned == ret.op = "list" /\ ret.status = "ok"

(* C5: list returns rows that pass the embedding, source and date filters,
   each once, sorted by created_at descending, cut to the first L when a limit
   L is given (so every row left out is no newer than any row returned), in
   the order of the query's rows. *)
C5_ListFilterOrderLimit ==
    ListReturned
        => LET v == ret.value
               n == Cardinality(Eligible) IN
           /\ \A i \in 1..Len(v) :
                \E r \in Eligible : /\ r.id = v[i].activity.uid
                                    /\ r.created_at = v[i].activity.created_at
                                    /\ r.source_uid = v[i].activity.source_uid
           /\ \A i \in 1..Len(v), j \in 1..Len(v) :
                i # j => v[i].activity.uid # v[j].activity.uid
           /\ Len(v) = IF ret.limit # None THEN Min(ret.limit[1], n) ELSE n
           /\ \A i \in 1..(Len(v) - 1) :
                v[i].activity.created_at >= v[i + 1].activity.created_at
           /\ \A r \in Eligible :
                (\A i \in 1..Len(v) : v[i].activity.uid # r.id)
                    => \A i \in 1..Len(v) : r.created_at <= v[i].activity.created_at
           /\ Len(ret.fetched) = Len(v)
           /\ \A i \in 1..Len(v) : ret.fetched[i].id = v[i].activity.uid

\* a call with both filters and a limit that cuts off the oldest row,
\* returning rows of different creation times
C5_Witness ==
    /\ ListReturned
    /\ ret.source_ids # None
    /\ ret.from_date # None
    /\ ret.limit # None
    /\ ret.limit[1] < Cardinality(Eligible)
    /\ Len(ret.value) >= 2
    /\ ret.value[1].activity.created_at > ret.value[2].activity.created_at

(* C6: every activity list returns has a non-null embedding field, and with
   no limit the rows returned are exactly the stored rows with a non-null
   embedding that pass the other filters. *)
C6_ReturnedEmbeddingsNonNull ==
    ListReturned
        => /\ \A i \in 1..Len(ret.value) : ret.value[i].embedding # NULL
           /\ ret.limit = None
                => {ret.value[i].activity.uid : i \in 1..Len(ret.value)}
                      = {r.id : r \in Eligible}

\* a column value that is there and not empty
Populated(row, key) == key \in DOMAIN row /\ row[key] # NULL /\ row[key] # ""

(* C7: the deserialized activity has a summary if and only if short_summary
   and full_summary of the row are both non-empty; the summary then carries
   exactly those two values, and otherwise it is None. *)
C7_SummaryIffBothPopulated ==
    ret.op = "deserialize"
        => LET both == Populated(ret.row, "short_summary")
                          /\ Populated(ret.row, "full_summary")
               summary == ret.value.summary IN
           /\ IsSome(summary) <=> both
           /\ both => summary = Some([short_summary |-> ret.row["short_summary"],
                                      full_summary |-> ret.row["full_summary"]])
           /\ ~both => summary = None

\* a row with a short summary and an empty full summary, deserialized
C7_Witness ==
    /\ ret.op = "deserialize"
    /\ Populated(ret.row, "short_summary")
    /\ "full_summary" \in DOMAIN ret.row
    /\ ret.row["full_summary"] = ""
    /\ ret.value.summary = None

(* C8: get_all_topics_summary returns one summary for each topic of the
   topic-info table other than the outlier topic, in the table's order, none
   with topic_id -1; get_topic_activities(-1) still returns the activities at
   the positions assigned -1. *)
C8_AllSummariesSkipOutlier ==
    /\ (ret.op = "get_all_topics_summary" /\ ret.status = "ok")
          => LET ids == SelectSeq(engine.info, LAMBDA t : t # -1) IN
             /\ Len(ret.value) = Len(ids)
             /\ \A i \in 1..Len(ids) :
                  /\ ret.value[i].topic_id = ids[i]
                  /\ ret.value[i].topic_id # -1
                  /\ ret.value[i] = get_topic_summary(ids[i])
    /\ (ret.op = "get_topic_activities" /\ ret.arg = -1)
          => LET at == {i \in 1..Len(topics) : topics[i] = -1 /\ i <= Len(activities)} IN
             /\ Range(ret.positions) = at
             /\ Len(ret.value) = Cardinality(at)
             /\ \A k \in 1..Len(ret.value) : ret.value[k] = activities[ret.positions[k]]

\* all summaries of a table that lists the outlier topic after another topic
C8_Witness ==
    /\ ret.op = "get_all_topics_summary"
    /\ ret.status = "ok"
    /\ Len(engine.info) >= 2
    /\ engine.info[1] # OUTLIER
    /\ OUTLIER \in Range(engine.info)
    /\ Len(ret.value) >= 1

(* C9: a call of list connects once and runs at most one query; if
   connecting, the query or the deserialization of any row fails, the error is
   logged and raised and no activity is returned; a result is returned only
   when every fetched row was deserialized. *)
C9_ListAllOrNothing ==
    ret.op = "list"
        => /\ ret.connects = 1
           /\ ret.executes <= 1
           /\ ret.status \in {"ok", "raised"}
           /\ ret.status = "raised" => ret.value = <<>> /\ ret.logged
           /\ ret.status = "ok"
                => /\ ret.executes = 1
                   /\ Len(ret.value) = Len(ret.fetched)
                   /\ \A i \in 1..Len(ret.fetched) : Columns \subseteq DOMAIN ret.fetched[i]
           /\ (\E i \in 1..Len(ret.fetched) : ~(Columns \subseteq DOMAIN ret.fetched[i]))
                => ret.status = "raised"

\* a batch of two or more rows, one of them lacking a column, raised as a whole
C9_Witness ==
    /\ ret.op = "list"
    /\ ret.status = "raised"
    /\ ret.error = "KeyError"
    /\ Len(ret.fetched) >= 2
    /\ \E i \in 1..Len(ret.fetched) : Columns \subseteq DOMAIN ret.fetched[i]
    /\ ret.value = <<>>

(* C10: get_topic_summary reports as activity_count the number of activities
   get_topic_activities returns for the topic, and lists the first
   min(10, activity_count) of them in the same order. *)
C10_CountIsNotCapped ==
    (ret.op = "get_topic_summary" /\ ret.status = "ok")
        => LET at == {i \in 1..Len(topics) : topics[i] = ret.arg /\ i <= Len(activities)}
               pos == PositionsIn(topics, ret.arg)
               shown == ret.value.activities IN
           /\ ret.value.activity_count = Cardinality(at)
           /\ Len(shown) = Min(10, Cardinality(at))
           /\ \A k \in 1..Len(shown) :
                /\ pos[k] \in at
                /\ shown[k].uid = activities[pos[k]].activity.uid
                /\ shown[k].title = activities[pos[k]].activity.title

\* a summary of a topic with more than ten activities
C10_Witness ==
    /\ ret.op = "get_topic_summary"
    /\ ret.status = "ok"
    /\ ret.value.activity_count > 10
    /\ Len(ret.value.activities) = 10

\* the ids of the activities in a sequence
Uids(acts) == {acts[i].activity.uid : i \in 1..Len(acts)}

(* C11: seed changes the facade in separate steps with nothing locked: first
   activities (documents and topics still the previous ones), then documents,
   then topics after the engine's fit; a get_topic_activities that runs while
   a seed is in flight reads the new activities at the positions of the
   previous fit's topics. *)
C11_SeedStepsAreSeparate ==
    [][/\ (seed_pc = "idle" /\ seed_pc' = "docs")
            => /\ activities' # <<>>
               /\ Uids(activities') = {r.id : r \in table'}
               /\ documents' = documents
               /\ topics' = topics
               /\ engine' = engine
       /\ (seed_pc = "docs" /\ seed_pc' # "docs")
            => /\ activities' = activities
               /\ topics' = topics
               /\ engine' = engine
       /\ (seed_pc = "fit" /\ seed_pc' = "idle")
            => /\ activities' = activities
               /\ documents' = documents
       /\ seed_pc \in {"docs", "fit"} => topics = engine.topics
       /\ (seed_pc \in {"docs", "fit"} /\ seed_pc' = seed_pc
             /\ ret'.op = "get_topic_activities")
            => LET at == PositionsIn(engine.topics, ret'.arg) IN
               /\ \A k \in 1..Len(ret'.positions) : ret'.positions[k] \in Range(at)
               /\ \A p \in Range(at) :
                    p <= Len(activities) => p \in Range(ret'.positions)
               /\ \A k \in 1..Len(ret'.value) :
                    ret'.value[k] = activities[ret'.positions[k]]]_vars

\* a read during a seed that follows a successful one (no seed has raised):
\* an activity comes back at a position whose topic the engine assigned to
\* the document of another activity
C11_Witness ==
    /\ seed_pc \in {"docs", "fit"}
    /\ ~raised
    /\ engine.fitted
    /\ ret.op = "get_topic_activities"
    /\ \E k \in 1..Len(ret.value) :
         /\ ret.value[k] = activities[ret.positions[k]]
         /\ topics[ret.positions[k]] = ret.arg
         /\ engine.topics = topics
         /\ ~DocRaises(ret.value[k])
         /\ DocText(ret.value[k]) # engine.docs[ret.positions[k]]
====
